---- MODULE Spec2Model ----
(***************************************************************************)
(* govc_exporter: the ancestry cache (ParentsCache), the ancestry resolver *)
(* (getParents) and the collectors' Update loop that drives them.          *)
(*                                                                         *)
(* One scrape goroutine runs one Update at a time.  Every access to shared *)
(* state (the cache map, its mutex) and every remote call is one step, so  *)
(* concurrent Updates interleave exactly at those points.                  *)
(***************************************************************************)
EXTENDS Integers, Sequences, FiniteSets, TLC

\* ---------------------------------------------------------------- bounds
\* Number of ancestor nodes of the inventory (a chain: node n's parent is n-1).
MaxNodes == 3
\* Largest number of objects one bulk retrieve returns.
MaxItems == 2
\* Largest value of --web.max-requests explored (parallel scrape goroutines).
MaxRequests == 2

Nodes == 1..MaxNodes
Scrapes == 1..MaxRequests

\* A nil *types.ManagedObjectReference.
Nil == 0

\* ------------------------------------------------------------- inventory
\* The type tags a reference can carry: the three the walk looks at and one
\* that it does not (ResourcePool stands for every other tag).
TypeTags == {"ResourcePool", "ClusterComputeResource", "StoragePod", "Datacenter"}

\* The name property of node n.  Node 1 is the top of the chain.
NodeName(n) ==
    CASE n = 1 -> "DC1"
      [] n = 2 -> "ClusterX"
      [] n = 3 -> "Pool1"
      [] n = 4 -> "Obj4"
      [] OTHER -> "ObjN"

\* The parent property of node n; the top node has none.
NodeParent(n) == IF n = 1 THEN Nil ELSE n - 1

\* The object an administrator may rename while the exporter runs, and its
\* new name.
RenamedNode == MaxNodes - 1
NewName == "ClusterY"

\* The name property of the i-th object a bulk retrieve returns.
ItemName(i) ==
    CASE i = 1 -> "Item1"
      [] i = 2 -> "Item2"
      [] i = 3 -> "Item3"
      [] OTHER -> "ItemN"

\* A host system: an object outside the ancestry chain, and its name.
HostRef == MaxNodes + 1
HostName(h) == "Host1"

\* The collectors of the claims under study.
Kinds == {"vm", "esx", "ds", "spod"}

\* Every typing of the chain.
Inventories == [Nodes -> TypeTags]

\* P1 (node 3, ResourcePool) -> P2 (node 2, ClusterComputeResource "ClusterX")
\* -> P3 (node 1, Datacenter "DC1", no further parent); nodes below P1 are
\* resource pools.
ScenarioInv ==
    [n \in Nodes |-> CASE n = 1 -> "Datacenter"
                       [] n = 2 -> "ClusterComputeResource"
                       [] OTHER -> "ResourcePool"]

\* --------------------------------------------------------------- records
\* type Parents struct { dc, cluster, spod string }
Parents(d, c, p) == [dc |-> d, cluster |-> c, spod |-> p]
NoneRec == Parents("NONE", "NONE", "NONE")
ErrorRec == Parents("ERROR", "ERROR", "ERROR")

\* vm collector: the item's parent, pool and host references, the results of
\* getVMPool and getVMHostSystem for it, and the remote calls those two made.
VMItem(p, pr, hr) ==
    [parent |-> p, poolRef |-> pr, hostRef |-> hr, pool |-> Nil, host |-> Nil, fetches |-> 0]
VMNone == VMItem(Nil, Nil, Nil)

VARIABLES
    inv,          \* the inventory: type tag of every node
    objs,         \* parent references the bulk-retrieved objects may carry
    nobjs,        \* how many objects a bulk retrieve returns at most
    maxRequests,  \* --web.max-requests
    cache,        \* ParentsCache.cache: a map from references to Parents
    mux,          \* ParentsCache.mux: 0 when free, else the goroutine holding it
    pc,           \* where each scrape goroutine is in Update / getParents
    me,           \* getParents: me.Parent of the current item
    cur,          \* getParents: cur
    res,          \* getParents: res
    calls,        \* RetrieveOne calls issued by the current getParents call
    log,          \* the getParents calls this Update has completed, in order
    env,          \* what other Updates did while this one ran
    enabled,      \* --collector.<name>: the registered collectors whose
                  \* Update each goroutine may be started for
    renamed,      \* whether the inventory object RenamedNode has been renamed
    kind,         \* the collector whose Update each scrape goroutine runs
    err,          \* the error result of each goroutine's latest Update
    sent,         \* the label values of the samples this Update has sent
    vm,           \* vm collector: the current item and its pool and host
    client,       \* c.client of each collector: the session it holds, named by
                  \* the goroutine that opened it, 0 when it holds none
    sess,         \* the session each goroutine opened last: none, open, closed
    cancelled     \* whether the scrape request behind each Update was cancelled

vars == <<inv, objs, nobjs, maxRequests, cache, mux, pc, me, cur, res, calls, log, env,
          enabled, renamed, kind, err, sent, vm, client, sess, cancelled>>

\* The name property a RetrieveOne of node n fetches now.
FetchedName(n) == IF renamed /\ n = RenamedNode THEN NewName ELSE NodeName(n)

\* ----------------------------------------------------------- ParentsCache
\* NewParentsCache, and the map Flush installs: make(map[...]Parents).
EmptyMap == [k \in {} |-> NoneRec]

\* Flush that keeps the old map.
FlushMapKeep(c) == c

\* Line 551: the map Flush puts in place of c.
FlushMap(c) == EmptyMap

\* An Add whose store is lost.
MapAddDrop(c, k, v) == c

\* An Add that keeps the stored record of a key the map already holds.
MapAddIfAbsent(c, k, v) == [x \in DOMAIN c \cup {k} |-> IF x \in DOMAIN c THEN c[x] ELSE v]

\* An Add that installs a map holding the new entry alone.
MapAddOnly(c, k, v) == [x \in {k} |-> v]

\* c.cache[mor] = val
MapAdd(c, k, v) == [x \in DOMAIN c \cup {k} |-> IF x = k THEN v ELSE c[x]]

\* A lookup that never reports ok.
MapFoundNever(c, k) == FALSE

\* val, ok := c.cache[mor]: ok, and val (the zero Parents when not ok).
MapFound(c, k) == k \in DOMAIN c
MapGet(c, k) == IF k \in DOMAIN c THEN c[k] ELSE Parents("", "", "")

\* ------------------------------------------------------------ getParents
\* The type tests with the StoragePod and ClusterComputeResource fields swapped.
ClassifySwap(r, tag, name) ==
    LET r1 == IF tag = "StoragePod" THEN [r EXCEPT !.cluster = name] ELSE r
        r2 == IF tag = "ClusterComputeResource" THEN [r1 EXCEPT !.spod = name] ELSE r1
    IN  IF tag = "Datacenter" THEN [r2 EXCEPT !.dc = name] ELSE r2

\* The type tests with the cluster case building a fresh record.
ClassifyClear(r, tag, name) ==
    LET r1 == IF tag = "StoragePod" THEN [r EXCEPT !.spod = name] ELSE r
        r2 == IF tag = "ClusterComputeResource" THEN Parents(r1.dc, name, "NONE") ELSE r1
    IN  IF tag = "Datacenter" THEN [r2 EXCEPT !.dc = name] ELSE r2

\* Type tests that take a ResourcePool for a cluster.
ClassifyPool(r, tag, name) ==
    LET r1 == IF tag = "StoragePod" THEN [r EXCEPT !.spod = name] ELSE r
        r2 == IF tag \in {"ClusterComputeResource", "ResourcePool"}
              THEN [r1 EXCEPT !.cluster = name] ELSE r1
    IN  IF tag = "Datacenter" THEN [r2 EXCEPT !.dc = name] ELSE r2

\* Lines 580-589: the three type tests on cur.Type against the fetched name.
Classify(r, tag, name) ==
    LET r1 == IF tag = "StoragePod" THEN [r EXCEPT !.spod = name] ELSE r
        r2 == IF tag = "ClusterComputeResource" THEN [r1 EXCEPT !.cluster = name] ELSE r1
    IN  IF tag = "Datacenter" THEN [r2 EXCEPT !.dc = name] ELSE r2

\* A loop that breaks only where the chain ends.
WalkEndsNoDC(tag, parent) == parent = Nil

\* Lines 586-592: the loop breaks at a Datacenter or at a node without parent.
WalkEnds(tag, parent) == tag = "Datacenter" \/ parent = Nil

Active(s) == pc[s] # "idle"

\* c.client of the collector whose Update goroutine s runs holds no session.
NoSession(s) == client[kind[s]] = 0

\* Another goroutine runs the Update of the same collector: c.client, a
\* field of the collector, is read again before the next apiConnect writes
\* it.  Otherwise the field is dead when Update returns.
SharedInstance(s) == \E u \in Scrapes \ {s} : Active(u) /\ kind[u] = kind[s]

\* A nil c.client is dereferenced: the goroutine panics, nothing recovers,
\* and the process is gone with all its goroutines.
Panic ==
    /\ pc' = [t \in Scrapes |-> "panic"]
    /\ mux' = 0
    /\ UNCHANGED <<inv, objs, nobjs, maxRequests, client, sess, cancelled, enabled, renamed, kind, err, sent, vm, cache, me, cur, res, calls, log, env>>

\* One completed getParents call, as the Update observed it.
Entry(p, r, n, f) == [parent |-> p, ret |-> r, calls |-> n, failed |-> f]

\* res left at Go's zero value.
InitResZero == Parents("", "", "")

\* Lines 558-562: res as declared, before any node is visited.
InitRes == NoneRec

\* A failure that marks the dc field only.
FailResKeep(r) == [r EXCEPT !.dc = "ERROR"]

\* Line 578: what a failed RetrieveOne makes getParents return, whatever res
\* holds by then.
FailRes(r) == ErrorRec

\* A hit that returns the local res instead of the cached record.
HitResLocal(c, k) == NoneRec

\* Lines 567-570: the record a cache hit returns.
HitRes(c, k) == MapGet(c, k)

\* An Add keyed by the node the walk ended at.
AddKeyLast(parent, last) == last

\* An Add that takes a walk without Datacenter for a failed one.
AddValError(r) == IF r.dc = "NONE" THEN ErrorRec ELSE r

\* An Add of the record as declared instead of the walk's result.
AddValInit(r) == NoneRec

\* Line 595: the key and value of the Add that ends a walk.
AddKey(parent, last) == parent
AddVal(r) == r

\* The references a VM's ResourcePool and Runtime.Host property may hold.
PoolRefs == {Nil} \cup {n \in Nodes : inv[n] = "ResourcePool"}
HostRefs == {Nil, HostRef}

\* A lookup that calls RetrieveOne whatever the reference.
RemoteCallsAlways(ref) == 1

\* getVMPool, getVMHostSystem: the remote calls made for reference ref, and
\* the entity returned when the fetch succeeds (ok) or fails.
RemoteCalls(ref) == IF ref = Nil THEN 0 ELSE 1
Fetched(ref, ok) == IF ref = Nil \/ ~ok THEN Nil ELSE ref

\* A pool label left empty when there is no pool.
PoolLabelEmpty(pool) == IF pool = Nil THEN "" ELSE FetchedName(pool)

\* Lines 231-243: poolName and esxName.
PoolLabel(pool) == IF pool = Nil THEN "NONE" ELSE FetchedName(pool)
EsxLabel(host) == IF host = Nil THEN "NONE" ELSE HostName(host)

\* Lines 245-251: the ancestry, host and pool label values of a vm sample.
VMLabelsValues(r, esxName, poolName, name) ==
    [dc |-> r.dc, cluster |-> r.cluster, esx |-> esxName, pool |-> poolName, name |-> name]

\* Label values taken from the record as declared, not from getParents.
LabelsValuesNone(k, r, name) ==
    CASE k = "esx" -> [dc |-> NoneRec.dc, cluster |-> NoneRec.cluster, name |-> name]
      [] k = "ds" -> [dc |-> NoneRec.dc, spod |-> NoneRec.spod, name |-> name]
      [] OTHER -> [dc |-> NoneRec.dc, name |-> name]

\* Label values that leave the entity's name empty.
LabelsValuesNoName(k, r, name) ==
    CASE k = "esx" -> [dc |-> r.dc, cluster |-> r.cluster, name |-> ""]
      [] k = "ds" -> [dc |-> r.dc, spod |-> r.spod, name |-> ""]
      [] OTHER -> [dc |-> r.dc, name |-> ""]

\* The ancestry and name label values an esx, ds or spod sample carries, from
\* the record r that getParents returned: {vc, tmp.dc, tmp.cluster, name, ...}
\* for esx, {vc, tmp.dc, name, type, tmp.spod, ...} for ds, {vc, tmp.dc, name}
\* for spod.
LabelsValues(k, r, name) ==
    CASE k = "esx" -> [dc |-> r.dc, cluster |-> r.cluster, name |-> name]
      [] k = "ds" -> [dc |-> r.dc, spod |-> r.spod, name |-> name]
      [] OTHER -> [dc |-> r.dc, name |-> name]

\* getParents returns r to Update: the call is logged and its locals go out
\* of scope.  The esx, ds and spod collectors build the labels from r, send
\* the item's samples and are back at the head of the range loop; the vm
\* collector goes on to getVMHostSystem.
Return(s, p, r, n, f) ==
    /\ log' = [log EXCEPT ![s] = Append(@, Entry(p, r, n, f))]
    /\ sent' = IF kind[s] = "vm" THEN sent
               ELSE [sent EXCEPT ![s] = Append(@, LabelsValues(kind[s], r, ItemName(Len(sent[s]) + 1)))]
    /\ pc' = [pc EXCEPT ![s] = IF kind[s] = "vm" THEN "getVMHostSystem" ELSE "range"]
    /\ me' = [me EXCEPT ![s] = Nil]
    /\ cur' = [cur EXCEPT ![s] = Nil]
    /\ res' = [res EXCEPT ![s] = NoneRec]
    /\ calls' = [calls EXCEPT ![s] = 0]

\* ---------------------------------------------------------------- Update
\* An Update that goes to apiConnect without a Flush.
BeginUpdateNoFlush(s) ==
    /\ pc[s] = "idle"
    /\ s <= maxRequests
    /\ pc' = [pc EXCEPT ![s] = "apiConnect"]
    /\ \E k \in enabled[s] : kind' = [kind EXCEPT ![s] = k]
    /\ err' = [err EXCEPT ![s] = "nil"]
    /\ env' = [t \in Scrapes |->
                 IF t = s THEN (IF \E u \in Scrapes \ {s} : Active(u) THEN "overlap" ELSE "alone")
                 ELSE IF Active(t) /\ env[t] = "alone" THEN "overlap" ELSE env[t]]
    /\ UNCHANGED <<inv, objs, nobjs, maxRequests, client, sess, cancelled, enabled, renamed, sent, vm, cache, mux, me, cur, res, calls, log>>

\* A scrape request is admitted (at most maxRequests at a time) and calls
\* the collector's Update.
BeginUpdate(s) ==
    /\ pc[s] = "idle"
    /\ s <= maxRequests
    /\ pc' = [pc EXCEPT ![s] = "Flush"]
    /\ \E k \in enabled[s] : kind' = [kind EXCEPT ![s] = k]
    /\ err' = [err EXCEPT ![s] = "nil"]
    /\ env' = [t \in Scrapes |->
                 IF t = s THEN (IF \E u \in Scrapes \ {s} : Active(u) THEN "overlap" ELSE "alone")
                 ELSE IF Active(t) /\ env[t] = "alone" THEN "overlap" ELSE env[t]]
    /\ UNCHANGED <<inv, objs, nobjs, maxRequests, client, sess, cancelled, enabled, renamed, sent, vm, cache, mux, me, cur, res, calls, log>>

\* cache.Flush(): c.mux.Lock()
FlushLock(s) ==
    /\ pc[s] = "Flush"
    /\ mux = 0
    /\ mux' = s
    /\ pc' = [pc EXCEPT ![s] = "FlushCS"]
    /\ UNCHANGED <<inv, objs, nobjs, maxRequests, client, sess, cancelled, enabled, renamed, kind, err, sent, vm, cache, me, cur, res, calls, log, env>>

\* A Flush that spares the entries while another Update is running.
FlushCSSpares(s) ==
    /\ pc[s] = "FlushCS"
    /\ cache' = IF \E u \in Scrapes \ {s} : Active(u) THEN cache ELSE FlushMap(cache)
    /\ mux' = 0
    /\ pc' = [pc EXCEPT ![s] = "apiConnect"]
    /\ env' = [t \in Scrapes |-> IF t # s /\ Active(t) THEN "flushed" ELSE env[t]]
    /\ UNCHANGED <<inv, objs, nobjs, maxRequests, client, sess, cancelled, enabled, renamed, kind, err, sent, vm, me, cur, res, calls, log>>

\* cache.Flush(): c.cache = make(...); c.mux.Unlock()
FlushCS(s) ==
    /\ pc[s] = "FlushCS"
    /\ cache' = FlushMap(cache)
    /\ mux' = 0
    /\ pc' = [pc EXCEPT ![s] = "apiConnect"]
    /\ env' = [t \in Scrapes |-> IF t # s /\ Active(t) THEN "flushed" ELSE env[t]]
    /\ UNCHANGED <<inv, objs, nobjs, maxRequests, client, sess, cancelled, enabled, renamed, kind, err, sent, vm, me, cur, res, calls, log>>

\* Update returns: the goroutine is free for the next scrape.
UpdateReturns(s) ==
    /\ pc' = [pc EXCEPT ![s] = "idle"]
    /\ log' = [log EXCEPT ![s] = <<>>]
    /\ env' = [env EXCEPT ![s] = "alone"]
    /\ kind' = [kind EXCEPT ![s] = "none"]
    /\ sent' = [sent EXCEPT ![s] = <<>>]
    /\ cancelled' = [cancelled EXCEPT ![s] = FALSE]

\* err = c.apiConnect(): c.client, err = govmomi.NewClient(...) stores the
\* new session in the collector, or none when the login failed; on error
\* Update returns it.
ApiConnect(s) ==
    /\ pc[s] = "apiConnect"
    /\ \/ /\ pc' = [pc EXCEPT ![s] = "apiRetrieve"]
          /\ client' = [client EXCEPT ![kind[s]] = s]
          /\ sess' = [sess EXCEPT ![s] = "open"]
          /\ UNCHANGED <<log, env, kind, err, sent, cancelled>>
       \/ /\ err' = [err EXCEPT ![s] = "connect"]
          /\ client' = [client EXCEPT ![kind[s]] = 0]
          /\ UNCHANGED sess
          /\ UpdateReturns(s)
    /\ UNCHANGED <<inv, objs, nobjs, maxRequests, enabled, renamed, vm, cache, mux, me, cur, res, calls>>

\* An Update that ranges over the items although apiRetrieve failed.
ApiRetrieveGoesOn(s) ==
    /\ pc[s] = "apiRetrieve"
    /\ \/ /\ pc' = [pc EXCEPT ![s] = "range"]
          /\ UNCHANGED err
       \/ /\ pc' = [pc EXCEPT ![s] = "range"]
          /\ err' = [err EXCEPT ![s] = "retrieve"]
    /\ UNCHANGED <<inv, objs, nobjs, maxRequests, client, sess, cancelled, enabled, renamed, kind, sent, vm, cache, mux, me, cur, res, calls, log, env>>

\* An Update that registers the deferred apiDisconnect after apiRetrieve:
\* a failed retrieve returns with the session left open.
ApiRetrieveLeaks(s) ==
    /\ pc[s] = "apiRetrieve"
    /\ IF NoSession(s)
       THEN Panic
       ELSE /\ \/ /\ pc' = [pc EXCEPT ![s] = "range"]
                  /\ UNCHANGED <<err, kind, sent, log, env, cancelled>>
               \/ /\ err' = [err EXCEPT ![s] = "retrieve"]
                  /\ UpdateReturns(s)
            /\ UNCHANGED <<inv, objs, nobjs, maxRequests, client, sess, enabled, renamed, vm, cache, mux, me, cur, res, calls>>

\* items, err := c.apiRetrieve(); on error Update returns it through the
\* deferred apiDisconnect.
ApiRetrieve(s) ==
    /\ pc[s] = "apiRetrieve"
    /\ IF NoSession(s)
       THEN Panic
       ELSE /\ \/ /\ pc' = [pc EXCEPT ![s] = "range"]
                  /\ UNCHANGED err
               \/ /\ pc' = [pc EXCEPT ![s] = "apiDisconnect"]
                  /\ err' = [err EXCEPT ![s] = "retrieve"]
            /\ UNCHANGED <<inv, objs, nobjs, maxRequests, client, sess, cancelled, enabled, renamed, kind, sent, vm, cache, mux, me, cur, res, calls, log, env>>

\* for _, item := range items: the next item, and the entry of getParents
\* for it (lines 555-566).  The items are drawn as they are ranged over.
RangeNext(s) ==
    /\ pc[s] = "range"
    /\ kind[s] # "vm"
    /\ Len(log[s]) < nobjs
    /\ IF NoSession(s)
       THEN Panic
       ELSE /\ \E p \in objs :
                  IF p = Nil
                  THEN /\ Return(s, p, InitRes, 0, FALSE)
                  ELSE /\ me' = [me EXCEPT ![s] = p]
                       /\ res' = [res EXCEPT ![s] = InitRes]
                       /\ pc' = [pc EXCEPT ![s] = "Get"]
                       /\ UNCHANGED <<cur, calls, log, sent>>
            /\ UNCHANGED <<inv, objs, nobjs, maxRequests, client, sess, cancelled, enabled, renamed, kind, err, vm, cache, mux, env>>

\* The range is exhausted: return nil, through the deferred apiDisconnect.
RangeDone(s) ==
    /\ pc[s] = "range"
    /\ pc' = [pc EXCEPT ![s] = "apiDisconnect"]
    /\ log' = [log EXCEPT ![s] = <<>>]
    /\ sent' = [sent EXCEPT ![s] = <<>>]
    /\ vm' = [vm EXCEPT ![s] = VMNone]
    /\ UNCHANGED <<inv, objs, nobjs, maxRequests, client, sess, cancelled, enabled, renamed, kind, err, cache, mux, me, cur, res, calls, env>>

\* A Get that enters its critical section without waiting for the mutex.
GetLockNoWait(s) ==
    /\ pc[s] = "Get"
    /\ mux' = s
    /\ pc' = [pc EXCEPT ![s] = "GetCS"]
    /\ UNCHANGED <<inv, objs, nobjs, maxRequests, client, sess, cancelled, enabled, renamed, kind, err, sent, vm, cache, me, cur, res, calls, log, env>>

\* cache.Get(*me.Parent): c.mux.Lock()
GetLock(s) ==
    /\ pc[s] = "Get"
    /\ mux = 0
    /\ mux' = s
    /\ pc' = [pc EXCEPT ![s] = "GetCS"]
    /\ UNCHANGED <<inv, objs, nobjs, maxRequests, client, sess, cancelled, enabled, renamed, kind, err, sent, vm, cache, me, cur, res, calls, log, env>>

\* A Get that returns a hit without unlocking the mutex.
GetCSKeepsLock(s) ==
    /\ pc[s] = "GetCS"
    /\ IF MapFound(cache, me[s])
       THEN /\ Return(s, me[s], HitRes(cache, me[s]), calls[s], FALSE)
            /\ UNCHANGED mux
       ELSE /\ mux' = 0
            /\ cur' = [cur EXCEPT ![s] = me[s]]
            /\ pc' = [pc EXCEPT ![s] = "RetrieveOne"]
            /\ UNCHANGED <<me, res, calls, log, sent>>
    /\ UNCHANGED <<inv, objs, nobjs, maxRequests, client, sess, cancelled, enabled, renamed, kind, err, vm, cache, env>>

\* cache.Get: val, ok := c.cache[mor]; c.mux.Unlock(); then lines 568-574.
GetCS(s) ==
    /\ pc[s] = "GetCS"
    /\ mux' = 0
    /\ IF MapFound(cache, me[s])
       THEN Return(s, me[s], HitRes(cache, me[s]), calls[s], FALSE)
       ELSE /\ cur' = [cur EXCEPT ![s] = me[s]]
            /\ pc' = [pc EXCEPT ![s] = "RetrieveOne"]
            /\ UNCHANGED <<me, res, calls, log, sent>>
    /\ UNCHANGED <<inv, objs, nobjs, maxRequests, client, sess, cancelled, enabled, renamed, kind, err, vm, cache, env>>

\* A loop that fetches the same node again when the fetch failed.
RetrieveOneRetry(s) ==
    /\ pc[s] = "RetrieveOne"
    /\ \/ /\ calls' = [calls EXCEPT ![s] = @ + 1]
          /\ UNCHANGED <<pc, cur, res, me, log, sent>>
       \/ /\ calls' = [calls EXCEPT ![s] = @ + 1]
          /\ res' = [res EXCEPT ![s] = Classify(@, inv[cur[s]], FetchedName(cur[s]))]
          /\ IF WalkEnds(inv[cur[s]], NodeParent(cur[s]))
             THEN /\ pc' = [pc EXCEPT ![s] = "Add"]
                  /\ UNCHANGED cur
             ELSE /\ cur' = [cur EXCEPT ![s] = NodeParent(cur[s])]
                  /\ UNCHANGED pc
          /\ UNCHANGED <<me, log, sent>>
    /\ UNCHANGED <<inv, objs, nobjs, maxRequests, client, sess, cancelled, enabled, renamed, kind, err, vm, cache, mux, env>>

\* A loop that adds the failure record to the cache when the fetch failed.
RetrieveOneCachesError(s) ==
    /\ pc[s] = "RetrieveOne"
    /\ \/ /\ calls' = [calls EXCEPT ![s] = @ + 1]
          /\ res' = [res EXCEPT ![s] = ErrorRec]
          /\ pc' = [pc EXCEPT ![s] = "Add"]
          /\ UNCHANGED <<cur, me, log, sent>>
       \/ /\ calls' = [calls EXCEPT ![s] = @ + 1]
          /\ res' = [res EXCEPT ![s] = Classify(@, inv[cur[s]], FetchedName(cur[s]))]
          /\ IF WalkEnds(inv[cur[s]], NodeParent(cur[s]))
             THEN /\ pc' = [pc EXCEPT ![s] = "Add"]
                  /\ UNCHANGED cur
             ELSE /\ cur' = [cur EXCEPT ![s] = NodeParent(cur[s])]
                  /\ UNCHANGED pc
          /\ UNCHANGED <<me, log, sent>>
    /\ UNCHANGED <<inv, objs, nobjs, maxRequests, client, sess, cancelled, enabled, renamed, kind, err, vm, cache, mux, env>>

\* A loop that never moves to the parent: it fetches the same node again.
RetrieveOneStays(s) ==
    /\ pc[s] = "RetrieveOne"
    /\ \/ Return(s, me[s], FailRes(res[s]), calls[s] + 1, TRUE)
       \/ /\ calls' = [calls EXCEPT ![s] = @ + 1]
          /\ res' = [res EXCEPT ![s] = Classify(@, inv[cur[s]], FetchedName(cur[s]))]
          /\ IF WalkEnds(inv[cur[s]], NodeParent(cur[s]))
             THEN /\ pc' = [pc EXCEPT ![s] = "Add"]
                  /\ UNCHANGED cur
             ELSE /\ UNCHANGED <<cur, pc>>
          /\ UNCHANGED <<me, log, sent>>
    /\ UNCHANGED <<inv, objs, nobjs, maxRequests, client, sess, cancelled, enabled, renamed, kind, err, vm, cache, mux, env>>

\* One turn of the loop, lines 575-594: the remote fetch of cur's name and
\* parent, which may fail, then the type tests and the move to the parent.
RetrieveOne(s) ==
    /\ pc[s] = "RetrieveOne"
    /\ \/ Return(s, me[s], FailRes(res[s]), calls[s] + 1, TRUE)
       \/ /\ calls' = [calls EXCEPT ![s] = @ + 1]
          /\ res' = [res EXCEPT ![s] = Classify(@, inv[cur[s]], FetchedName(cur[s]))]
          /\ IF WalkEnds(inv[cur[s]], NodeParent(cur[s]))
             THEN /\ pc' = [pc EXCEPT ![s] = "Add"]
                  /\ UNCHANGED cur
             ELSE /\ cur' = [cur EXCEPT ![s] = NodeParent(cur[s])]
                  /\ UNCHANGED pc
          /\ UNCHANGED <<me, log, sent>>
    /\ UNCHANGED <<inv, objs, nobjs, maxRequests, client, sess, cancelled, enabled, renamed, kind, err, vm, cache, mux, env>>

\* cache.Add(*me.Parent, res): c.mux.Lock()
AddLock(s) ==
    /\ pc[s] = "Add"
    /\ mux = 0
    /\ mux' = s
    /\ pc' = [pc EXCEPT ![s] = "AddCS"]
    /\ UNCHANGED <<inv, objs, nobjs, maxRequests, client, sess, cancelled, enabled, renamed, kind, err, sent, vm, cache, me, cur, res, calls, log, env>>

\* cache.Add: c.cache[mor] = val; c.mux.Unlock(); then return res (line 596).
AddCS(s) ==
    /\ pc[s] = "AddCS"
    /\ cache' = MapAdd(cache, AddKey(me[s], cur[s]), AddVal(res[s]))
    /\ mux' = 0
    /\ Return(s, me[s], res[s], calls[s], FALSE)
    /\ UNCHANGED <<inv, objs, nobjs, maxRequests, client, sess, cancelled, enabled, renamed, kind, err, vm, env>>

\* defer c.apiDisconnect(): c.client.Logout(c.ctx) logs out the session the
\* collector holds now; then Update returns.  A session its opener has
\* logged out and returned from is forgotten; one that another Update logged
\* out is closed under its opener, and one its opener returns without
\* logging out stays open.
ApiDisconnect(s) ==
    /\ pc[s] = "apiDisconnect"
    /\ IF NoSession(s)
       THEN Panic
       ELSE /\ sess' = [t \in Scrapes |->
                         IF t # client[kind[s]] THEN sess[t]
                         ELSE IF t = s THEN "none"
                         ELSE IF sess[t] = "open" THEN "closed" ELSE sess[t]]
            /\ client' = IF SharedInstance(s) THEN client
                         ELSE [client EXCEPT ![kind[s]] = 0]
            /\ UpdateReturns(s)
            /\ UNCHANGED <<inv, objs, nobjs, maxRequests, enabled, renamed, err, vm, cache, mux, me, cur, res, calls>>

\* vm collector, for _, item := range items: the next VM.
RangeNextVM(s) ==
    /\ pc[s] = "range"
    /\ kind[s] = "vm"
    /\ Len(log[s]) < nobjs
    /\ \E p \in objs, pr \in PoolRefs, hr \in HostRefs :
          vm' = [vm EXCEPT ![s] = VMItem(p, pr, hr)]
    /\ pc' = [pc EXCEPT ![s] = "getVMPool"]
    /\ UNCHANGED <<inv, objs, nobjs, maxRequests, client, sess, cancelled, enabled, renamed, kind, err, sent, cache, mux, me, cur, res, calls, log, env>>

\* A vm collector that always resolves the ancestry from the VM itself.
VMStartOwn(pool, parent) == parent

\* Lines 230-236: the me.Parent getParents is called with: the parent of the
\* pool entity when getVMPool returned one, else the parent of the VM.
VMStart(pool, parent) == IF pool = Nil THEN parent ELSE NodeParent(pool)

\* pool := getVMPool(item), then the entry of getParents for the pool when
\* there is one and for the VM itself otherwise (lines 230-237, 555-566).
GetVMPool(s) ==
    /\ pc[s] = "getVMPool"
    /\ IF NoSession(s)
       THEN Panic
       ELSE /\ \E ok \in BOOLEAN :
                  LET pool == Fetched(vm[s].poolRef, ok)
                      p == VMStart(pool, vm[s].parent)
                  IN  /\ vm' = [vm EXCEPT ![s].pool = pool,
                                          ![s].fetches = @ + RemoteCalls(vm[s].poolRef)]
                      /\ IF p = Nil
                         THEN Return(s, p, InitRes, 0, FALSE)
                         ELSE /\ me' = [me EXCEPT ![s] = p]
                              /\ res' = [res EXCEPT ![s] = InitRes]
                              /\ pc' = [pc EXCEPT ![s] = "Get"]
                              /\ UNCHANGED <<cur, calls, log, sent>>
            /\ UNCHANGED <<inv, objs, nobjs, maxRequests, client, sess, cancelled, enabled, renamed, kind, err, cache, mux, env>>

\* host := getVMHostSystem(item), the labels and the VM's samples (lines
\* 238-314); Update is back at the head of the range loop.
GetVMHostSystem(s) ==
    /\ pc[s] = "getVMHostSystem"
    /\ IF NoSession(s)
       THEN Panic
       ELSE /\ \E ok \in BOOLEAN :
                  LET host == Fetched(vm[s].hostRef, ok)
                  IN  /\ vm' = [vm EXCEPT ![s].host = host,
                                          ![s].fetches = @ + RemoteCalls(vm[s].hostRef)]
                      /\ sent' = [sent EXCEPT ![s] =
                                    Append(@, VMLabelsValues(log[s][Len(log[s])].ret,
                                                             EsxLabel(host), PoolLabel(vm[s].pool),
                                                             ItemName(Len(sent[s]) + 1)))]
            /\ pc' = [pc EXCEPT ![s] = "range"]
            /\ UNCHANGED <<inv, objs, nobjs, maxRequests, client, sess, cancelled, enabled, renamed, kind, err, cache, mux, me, cur, res, calls, log, env>>

Next ==
    \E s \in Scrapes :
        \/ BeginUpdate(s)
        \/ FlushLock(s)
        \/ FlushCS(s)
        \/ ApiConnect(s)
        \/ ApiRetrieve(s)
        \/ RangeNext(s)
        \/ RangeDone(s)
        \/ GetLock(s)
        \/ GetCS(s)
        \/ RetrieveOne(s)
        \/ AddLock(s)
        \/ AddCS(s)
        \/ ApiDisconnect(s)

\* The state after construction: an empty cache, a free mutex, no scrape.
InitProgram ==
    /\ cache = EmptyMap
    /\ mux = 0
    /\ pc = [s \in Scrapes |-> "idle"]
    /\ me = [s \in Scrapes |-> Nil]
    /\ cur = [s \in Scrapes |-> Nil]
    /\ res = [s \in Scrapes |-> NoneRec]
    /\ calls = [s \in Scrapes |-> 0]
    /\ log = [s \in Scrapes |-> <<>>]
    /\ env = [s \in Scrapes |-> "alone"]
    /\ renamed = FALSE
    /\ kind = [s \in Scrapes |-> "none"]
    /\ err = [s \in Scrapes |-> "nil"]
    /\ sent = [s \in Scrapes |-> <<>>]
    /\ vm = [s \in Scrapes |-> VMNone]
    /\ client = [k \in Kinds |-> 0]
    /\ sess = [s \in Scrapes |-> "none"]
    /\ cancelled = [s \in Scrapes |-> FALSE]

\* One scrape at a time, over every typing of the chain, the objects hanging
\* off any node or off none.
Init ==
    /\ inv \in Inventories
    /\ objs = Nodes \cup {Nil}
    /\ nobjs = MaxItems
    /\ maxRequests = 1
    /\ enabled = [s \in Scrapes |-> {"esx"}]
    /\ InitProgram

\* The collector a goroutine of one scrape runs: the registry calls the
\* Update of every registered collector in a goroutine of its own.
CollectorOf(s) ==
    CASE s = 1 -> "esx"
      [] s = 2 -> "ds"
      [] OTHER -> "spod"

\* The Updates of one scrape, in parallel, over the scenario inventory and
\* its two objects C and D, both children of P1 (node 3).
InitConc ==
    /\ inv = ScenarioInv
    /\ objs = {3}
    /\ nobjs = 2
    /\ maxRequests = MaxRequests
    /\ enabled = [s \in Scrapes |-> {CollectorOf(s)}]
    /\ InitProgram

\* The program with the vm collector registered as well.
NextColl ==
    \/ Next
    \/ \E s \in Scrapes :
          \/ RangeNextVM(s)
          \/ GetVMPool(s)
          \/ GetVMHostSystem(s)

\* One scrape at a time of any of the four collectors over the scenario
\* inventory, the objects hanging off any node or off none.
InitColl ==
    /\ inv = ScenarioInv
    /\ objs = Nodes \cup {Nil}
    /\ nobjs = MaxItems
    /\ maxRequests = 1
    /\ enabled = [s \in Scrapes |-> Kinds]
    /\ InitProgram

SpecColl == InitColl /\ [][NextColl]_vars

\* The inventory changes while the exporter runs: an administrator renames
\* an object, and every later fetch of it returns the new name.
Rename ==
    /\ ~renamed
    /\ renamed' = TRUE
    /\ UNCHANGED <<inv, objs, nobjs, maxRequests, client, sess, cancelled, enabled, kind, err, sent, vm, cache, mux, pc, me, cur, res, calls, log, env>>

NextMut == Next \/ Rename

\* Parallel scrapes of one object under P1 while the inventory may change.
InitMut ==
    /\ inv = ScenarioInv
    /\ objs = {3}
    /\ nobjs = 1
    /\ maxRequests = MaxRequests
    /\ enabled = [s \in Scrapes |-> {CollectorOf(s)}]
    /\ InitProgram

\* Scrapes that overlap on one collector: the exporter serves up to
\* maxRequests requests at a time, and each calls Update on the same esx
\* collector, whose fields c.client and c.ctx the calls share.
InitSess ==
    /\ inv = ScenarioInv
    /\ objs = {3}
    /\ nobjs = 1
    /\ maxRequests = MaxRequests
    /\ enabled = [s \in Scrapes |-> {"esx"}]
    /\ InitProgram

SpecSess == InitSess /\ [][Next]_vars

\* The scrape request behind a running Update is cancelled or times out.
\* Update(ch) receives no context and apiConnect sets c.ctx to
\* context.Background(), so nothing in the Update observes it.
Cancel(s) ==
    /\ Active(s)
    /\ ~cancelled[s]
    /\ cancelled' = [cancelled EXCEPT ![s] = TRUE]
    /\ UNCHANGED <<inv, objs, nobjs, maxRequests, client, sess, enabled, renamed, kind, err, sent, vm, cache, mux, pc, me, cur, res, calls, log, env>>

NextCancel == Next \/ \E s \in Scrapes : Cancel(s)

\* One scrape at a time of objects under any node; the request may be
\* cancelled at any point of its Update.
InitCancel ==
    /\ inv = ScenarioInv
    /\ objs = Nodes
    /\ nobjs = MaxItems
    /\ maxRequests = 1
    /\ enabled = [s \in Scrapes |-> {"esx"}]
    /\ InitProgram

SpecCancel == InitCancel /\ [][NextCancel]_vars

\* getParents of goroutine s takes a step: the goroutine is scheduled, and
\* the remote fetch it waits for returns, with a result or an error.
GetParentsStep(s) ==
    GetLock(s) \/ GetCS(s) \/ RetrieveOne(s) \/ AddLock(s) \/ AddCS(s)

\* One scrape at a time of one object, over every typing of the chain, the
\* object hanging off any node or off none.
InitTerm ==
    /\ inv \in Inventories
    /\ objs = Nodes \cup {Nil}
    /\ nobjs = 1
    /\ maxRequests = 1
    /\ enabled = [s \in Scrapes |-> {"esx"}]
    /\ InitProgram

\* A getParents call that has started keeps running.
SpecTerm ==
    /\ InitTerm
    /\ [][Next]_vars
    /\ \A s \in Scrapes : WF_vars(GetParentsStep(s))

\* c.mux.Lock() of goroutine s in Flush, Get or Add.
Lock(s) == FlushLock(s) \/ GetLock(s) \/ AddLock(s)

\* The statements of Flush, Get and Add between Lock and Unlock.
Unlock(s) == FlushCS(s) \/ GetCS(s) \/ AddCS(s)

\* The Updates of one scrape, in parallel, of one object under P1, fairly
\* scheduled: a goroutine inside a critical section goes on to its Unlock,
\* and sync.Mutex does not pass over a goroutine blocked in Lock forever.
InitFair ==
    /\ inv = ScenarioInv
    /\ objs = {3}
    /\ nobjs = 1
    /\ maxRequests = MaxRequests
    /\ enabled = [s \in Scrapes |-> {CollectorOf(s)}]
    /\ InitProgram

SpecFair ==
    /\ InitFair
    /\ [][Next]_vars
    /\ \A s \in Scrapes : WF_vars(Unlock(s)) /\ SF_vars(Lock(s))

Spec == Init /\ [][Next]_vars

SpecMut == InitMut /\ [][NextMut]_vars

SpecConc == InitConc /\ [][Next]_vars

\* ================================================================ claims
\* The completed getParents calls of scrape s in this Update.
Calls(s) == 1..Len(log[s])

\* Whether a fetch failed in a getParents call of this Update so far.
NoFailure(s) == \A i \in Calls(s) : ~log[s][i].failed

\* Two calls of one Update, the earlier first, for the same parent reference.
SameParent(s, i, j) ==
    /\ i < j
    /\ log[s][i].parent # Nil
    /\ log[s][i].parent = log[s][j].parent

\* The scenario chain: P1 = node 3 (ResourcePool), P2 = node 2
\* (ClusterComputeResource "ClusterX"), P3 = node 1 (Datacenter "DC1").
Scenario ==
    /\ inv[3] = "ResourcePool"
    /\ inv[2] = "ClusterComputeResource"
    /\ inv[1] = "Datacenter"

RECURSIVE SumCalls(_)
SumCalls(l) == IF l = <<>> THEN 0 ELSE Head(l).calls + SumCalls(Tail(l))

\* C1: in an Update that runs with no other scrape in flight and without a
\* failing fetch, of the getParents calls for one parent reference only the
\* first issues RetrieveOne calls; every later one issues none and returns
\* the record the first returned.
C1_OnlyFirstCallWalks ==
    \A s \in Scrapes :
        (env[s] = "alone" /\ NoFailure(s)) =>
            \A j \in Calls(s) :
                log[s][j].parent # Nil =>
                    IF \E i \in Calls(s) : SameParent(s, i, j)
                    THEN /\ log[s][j].calls = 0
                         /\ \A i \in Calls(s) :
                               SameParent(s, i, j) => log[s][j].ret = log[s][i].ret
                    ELSE log[s][j].calls >= 1

\* C1 witness: two objects with the same parent were resolved, the first by a
\* walk of several fetches, the second without any.
C1_Witness ==
    \E s \in Scrapes :
        /\ env[s] = "alone"
        /\ NoFailure(s)
        /\ Len(log[s]) = 2
        /\ SameParent(s, 1, 2)
        /\ log[s][1].calls >= 2
        /\ log[s][2].calls = 0
        /\ log[s][2].ret = log[s][1].ret

\* C2 as claimed: in every execution, no Update walks the same parent
\* reference twice.
C2_AtMostOneWalk ==
    \A s \in Scrapes :
        \A i, j \in Calls(s) :
            SameParent(s, i, j) => ~(log[s][i].calls > 0 /\ log[s][j].calls > 0)

\* C2 as amended: an Update walks a parent reference a second time only if
\* the earlier walk failed at a fetch or another Update's Flush ran during
\* this Update.
C2_SecondWalkOnlyAfterFailureOrFlush ==
    \A s \in Scrapes :
        \A i, j \in Calls(s) :
            (SameParent(s, i, j) /\ log[s][i].calls > 0 /\ log[s][j].calls > 0) =>
                (log[s][i].failed \/ env[s] = "flushed")

\* C2 witness: a second walk for the same parent after a walk that did not
\* fail, another Update having flushed the cache in between.
C2_Witness ==
    \E s \in Scrapes :
        /\ Len(log[s]) = 2
        /\ SameParent(s, 1, 2)
        /\ log[s][1].calls > 0 /\ ~log[s][1].failed
        /\ log[s][2].calls > 0
        /\ env[s] = "flushed"

\* The scenario run of C3: an undisturbed Update that resolved C then D, both
\* children of P1, without a failing fetch.
C3_Run(s) ==
    /\ Scenario
    /\ env[s] = "alone"
    /\ Len(log[s]) = 2
    /\ log[s][1].parent = 3
    /\ log[s][2].parent = 3
    /\ NoFailure(s)

\* C3 as claimed: resolving C then D issues exactly 2 remote fetches in total.
C3_TwoFetches == \A s \in Scrapes : C3_Run(s) => SumCalls(log[s]) = 2

\* C3 as amended: resolving C then D issues exactly 3 remote fetches in
\* total, one each for P1, P2 and P3, all of them by the call for C.
C3_ThreeFetches ==
    \A s \in Scrapes :
        C3_Run(s) => /\ SumCalls(log[s]) = 3
                     /\ log[s][1].calls = 3
                     /\ log[s][2].calls = 0

\* C3 witness: the scenario run has happened.
C3_Witness == \E s \in Scrapes : C3_Run(s) /\ log[s][1].ret = Parents("DC1", "ClusterX", "NONE")

\* The step is one in which getParents of scrape s returns.
Returns(s) == Len(log'[s]) = Len(log[s]) + 1

\* The call that has just returned.
Returned(s) == log'[s][Len(log'[s])]

\* C4: for an object without parent reference getParents returns the all-NONE
\* record, issues no remote call and leaves the cache (and its mutex) as they
\* were, whatever the cache holds.
C4_NoParentNoWork ==
    [][\A s \in Scrapes :
          (Returns(s) /\ Returned(s).parent = Nil) =>
              /\ Returned(s).ret = Parents("NONE", "NONE", "NONE")
              /\ Returned(s).calls = 0
              /\ cache' = cache
              /\ mux' = mux]_vars

\* C4 witness: a parentless object was resolved while the cache held an entry.
C4_Witness ==
    \E s \in Scrapes :
        /\ Len(log[s]) = 2
        /\ log[s][2].parent = Nil
        /\ log[s][2].ret = NoneRec
        /\ DOMAIN cache # {}

\* C5: when the cache holds an entry for the parent reference at the time of
\* the lookup, getParents returns exactly that record, issues no remote call
\* and does not modify the cache.
C5_HitReturnsStored ==
    [][\A s \in Scrapes :
          (pc[s] = "GetCS" /\ pc'[s] # "GetCS" /\ me[s] \in DOMAIN cache) =>
              /\ Returns(s)
              /\ Returned(s).parent = me[s]
              /\ Returned(s).ret = cache[me[s]]
              /\ Returned(s).calls = 0
              /\ cache' = cache]_vars

\* C5 witness: a lookup hit an entry other than the default record.
C5_Witness ==
    \E s \in Scrapes :
        /\ Len(log[s]) = 2
        /\ SameParent(s, 1, 2)
        /\ log[s][2].calls = 0
        /\ log[s][2].parent \in DOMAIN cache
        /\ log[s][2].ret = cache[log[s][2].parent]
        /\ log[s][2].ret # NoneRec

\* The nodes a walk from parent reference p visits: p and its ancestors, up to
\* and including the first Datacenter.
Visited(p) == {n \in 1..p : \A m \in (n + 1)..p : inv[m] # "Datacenter"}

\* The name of the topmost visited node with the given type tag, "NONE" when
\* no visited node has it.
NameOfTag(p, tag) ==
    LET hits == {n \in Visited(p) : inv[n] = tag}
    IN  IF hits = {} THEN "NONE"
        ELSE NodeName(CHOOSE n \in hits : \A m \in hits : n <= m)

\* C6: a failure-free walk returns dc = the name of the first Datacenter on
\* the chain from the parent reference, cluster = the name of the
\* ClusterComputeResource visited on the way, spod = the name of the
\* StoragePod visited on the way, each "NONE" when there is none; for the
\* scenario chain that is {dc:"DC1", cluster:"ClusterX", spod:"NONE"}.
C6_WalkResult ==
    \A s \in Scrapes : \A i \in Calls(s) :
        (log[s][i].calls > 0 /\ ~log[s][i].failed) =>
            /\ log[s][i].ret = Parents(NameOfTag(log[s][i].parent, "Datacenter"),
                                       NameOfTag(log[s][i].parent, "ClusterComputeResource"),
                                       NameOfTag(log[s][i].parent, "StoragePod"))
            /\ (Scenario /\ log[s][i].parent = 3) =>
                   log[s][i].ret = Parents("DC1", "ClusterX", "NONE")

\* C6 witness: the scenario walk from P1 has returned its record.
C6_Witness ==
    \E s \in Scrapes : \E i \in Calls(s) :
        /\ Scenario
        /\ log[s][i].parent = 3
        /\ log[s][i].calls = 3
        /\ ~log[s][i].failed
        /\ log[s][i].ret = Parents("DC1", "ClusterX", "NONE")

\* C7: a fetch failure at any step of the walk makes getParents return the
\* all-ERROR record and perform no Add: no step of the call up to the failure
\* changes the cache, and the parent reference is absent from it afterwards.
C7_FailureNotCached ==
    [][\A s \in Scrapes :
          /\ pc[s] \in {"Get", "GetCS", "RetrieveOne"} => cache' = cache
          /\ (Returns(s) /\ Returned(s).failed) =>
                /\ pc[s] = "RetrieveOne"
                /\ Returned(s).ret = Parents("ERROR", "ERROR", "ERROR")
                /\ Returned(s).parent \notin DOMAIN cache']_vars

\* C7 witness: the scenario walk failed at its third fetch, after the cluster
\* had been resolved, and returned the all-ERROR record.
C7_Witness ==
    \E s \in Scrapes : \E i \in Calls(s) :
        /\ Scenario
        /\ log[s][i].parent = 3
        /\ log[s][i].failed
        /\ log[s][i].calls = 3
        /\ log[s][i].ret = ErrorRec
        /\ 3 \notin DOMAIN cache

\* C8: once a walk has fetched a Datacenter node it issues no further
\* RetrieveOne: the node a walk is about to fetch is never above a
\* Datacenter of its chain, and no completed call has fetched more nodes
\* than the chain holds up to its first Datacenter.
C8_StopsAtDatacenter ==
    \A s \in Scrapes :
        /\ pc[s] = "RetrieveOne" => cur[s] \in Visited(me[s])
        /\ \A i \in Calls(s) :
              log[s][i].parent # Nil =>
                  log[s][i].calls <= Cardinality(Visited(log[s][i].parent))

\* C8 witness: a walk ended at a Datacenter that has a parent of its own.
C8_Witness ==
    \E s \in Scrapes : \E i \in Calls(s) :
        /\ log[s][i].parent = 3
        /\ inv[2] = "Datacenter"
        /\ NodeParent(2) # Nil
        /\ ~log[s][i].failed
        /\ log[s][i].calls = 2
        /\ log[s][i].ret.dc = NodeName(2)

\* C9: when the visited part of the chain holds a ClusterComputeResource node
\* and a StoragePod node, in either order, a failure-free walk returns both
\* names: neither field overwrites or clears the other.
C9_ClusterAndPod ==
    \A s \in Scrapes : \A i \in Calls(s) :
        (log[s][i].calls > 0 /\ ~log[s][i].failed) =>
            \A c, p \in Visited(log[s][i].parent) :
                ( /\ inv[c] = "ClusterComputeResource"
                  /\ inv[p] = "StoragePod"
                  /\ \A n \in Visited(log[s][i].parent) \ {c, p} :
                        inv[n] \notin {"ClusterComputeResource", "StoragePod"} ) =>
                    /\ log[s][i].ret.cluster = NodeName(c)
                    /\ log[s][i].ret.spod = NodeName(p)

\* C9 witness: a walk visited a StoragePod and then a ClusterComputeResource
\* below the Datacenter and returned both names.
C9_Witness ==
    \E s \in Scrapes : \E i \in Calls(s) :
        /\ inv[3] = "StoragePod"
        /\ inv[2] = "ClusterComputeResource"
        /\ inv[1] = "Datacenter"
        /\ log[s][i].parent = 3
        /\ ~log[s][i].failed
        /\ log[s][i].calls = 3
        /\ log[s][i].ret = Parents(NodeName(1), NodeName(2), NodeName(3))

\* C10: after Flush the map holds no key, a key enters the map only by an Add
\* of that key, and Get reports not-found for every key the map does not
\* hold: so after Flush every Get is not-found until a later Add of its key.
C10_FlushEmpties ==
    [][/\ \A s \in Scrapes :
             (pc[s] = "FlushCS" /\ pc'[s] # "FlushCS") => DOMAIN cache' = {}
       /\ \A s \in Scrapes :
             (pc[s] = "GetCS" /\ pc'[s] # "GetCS" /\ me[s] \notin DOMAIN cache) =>
                 (pc'[s] = "RetrieveOne" /\ ~Returns(s))
       /\ \A k \in DOMAIN cache' \ DOMAIN cache :
             \E s \in Scrapes : pc[s] = "AddCS" /\ pc'[s] # "AddCS" /\ me[s] = k]_vars

\* C10 witness: an Update added the entry for P1, another Update flushed the
\* cache, and the first Update's next lookup of P1 was not-found.
C10_Witness ==
    \E s \in Scrapes :
        /\ Len(log[s]) = 1
        /\ log[s][1].parent = 3
        /\ log[s][1].calls > 0
        /\ ~log[s][1].failed
        /\ env[s] = "flushed"
        /\ pc[s] = "RetrieveOne"
        /\ me[s] = 3
        /\ 3 \notin DOMAIN cache

\* The step is one of scrape s, taken from program point l.
StepFrom(s, l) == pc[s] = l /\ pc'[s] # "panic" /\ (pc'[s] # l \/ calls'[s] # calls[s])

\* C11: Add(k, v) stores v under k and leaves every other entry as it was;
\* Get never modifies the cache and returns the stored value of a key the
\* map holds; nothing but Add and Flush changes the map.  So a Get(k) after
\* Add(k, v), with no Flush and no other Add for k in between, returns v.
C11_GetAfterAdd ==
    [][/\ \A s \in Scrapes :
             StepFrom(s, "AddCS") =>
                 /\ DOMAIN cache' = DOMAIN cache \cup {me[s]}
                 /\ cache'[me[s]] = res[s]
                 /\ \A k \in DOMAIN cache \ {me[s]} : cache'[k] = cache[k]
       /\ \A s \in Scrapes :
             StepFrom(s, "GetCS") =>
                 /\ cache' = cache
                 /\ me[s] \in DOMAIN cache =>
                       (Returns(s) /\ Returned(s).ret = cache[me[s]])
       /\ (\A s \in Scrapes : ~StepFrom(s, "AddCS") /\ ~StepFrom(s, "FlushCS")) =>
             cache' = cache]_vars

\* C11 witness: two keys were added one after the other, and both entries
\* hold the records their walks returned.
C11_Witness ==
    \E s \in Scrapes :
        /\ Len(log[s]) = 2
        /\ log[s][1].parent = 3 /\ log[s][1].calls > 0 /\ ~log[s][1].failed
        /\ log[s][2].parent = 2 /\ log[s][2].calls > 0 /\ ~log[s][2].failed
        /\ DOMAIN cache = {2, 3}
        /\ cache[3] = log[s][1].ret
        /\ cache[2] = log[s][2].ret
        /\ cache[3] # cache[2]

\* A goroutine is inside a critical section of the cache.
InCS(s) == pc[s] \in {"FlushCS", "GetCS", "AddCS"}

\* A goroutine is at a remote call.
AtRemoteCall(s) ==
    pc[s] \in {"apiConnect", "apiRetrieve", "RetrieveOne", "apiDisconnect"}

\* C13: at most one goroutine is inside a cache critical section, the mutex
\* is held exactly by the goroutine inside one, and no goroutine holds it
\* while one of its remote calls is in progress.
C13_MutualExclusion ==
    /\ Cardinality({s \in Scrapes : InCS(s)}) <= 1
    /\ \A s \in Scrapes : (mux = s) <=> InCS(s)
    /\ \A s \in Scrapes : AtRemoteCall(s) => mux # s

\* C13 witness: one goroutine is inside Add's critical section while another
\* waits at Get's Lock.
C13_Witness ==
    \E s, u \in Scrapes :
        /\ s # u
        /\ pc[s] = "AddCS"
        /\ mux = s
        /\ pc[u] = "Get"

\* The record a complete walk from parent reference p yields.
WalkRecord(p) ==
    Parents(NameOfTag(p, "Datacenter"),
            NameOfTag(p, "ClusterComputeResource"),
            NameOfTag(p, "StoragePod"))

\* C14: with an inventory that does not change, under every interleaving of
\* concurrent Updates, every getParents call whose fetches did not fail
\* returns exactly the record a complete walk from its parent reference
\* yields, by hit or by walk, also when another Update's Flush ran in between.
C14_FlushRaceKeepsRecords ==
    \A s \in Scrapes : \A i \in Calls(s) :
        (log[s][i].parent # Nil /\ ~log[s][i].failed) =>
            log[s][i].ret = WalkRecord(log[s][i].parent)

\* C14 witness: another Update's Flush made this Update walk P1 twice, and
\* both walks returned the scenario record.
C14_Witness ==
    \E s \in Scrapes :
        /\ env[s] = "flushed"
        /\ Len(log[s]) = 2
        /\ log[s][1].parent = 3 /\ log[s][2].parent = 3
        /\ log[s][1].calls = 3 /\ log[s][2].calls = 3
        /\ ~log[s][1].failed /\ ~log[s][2].failed
        /\ log[s][1].ret = Parents("DC1", "ClusterX", "NONE")
        /\ log[s][2].ret = log[s][1].ret

\* Call j of this Update was a cache hit.
Hit(s, j) == log[s][j].parent # Nil /\ log[s][j].calls = 0

\* An earlier call of this Update walked the same parent and added its record.
AddedBefore(s, j) ==
    \E i \in Calls(s) :
        SameParent(s, i, j) /\ log[s][i].calls > 0 /\ ~log[s][i].failed

\* This Update is about to make its first getParents call.
AtFirstCall(s) == pc[s] = "range" /\ log[s] = <<>>

\* C15 as claimed: in every execution the cache is empty at the first
\* getParents call of an Update, and every cache hit of an Update follows an
\* Add by a getParents call of that same Update.
C15_CachePerUpdate ==
    \A s \in Scrapes :
        /\ AtFirstCall(s) => DOMAIN cache = {}
        /\ \A j \in Calls(s) : Hit(s, j) => AddedBefore(s, j)

\* C15 as amended: the cache is one instance shared by all Updates; for an
\* Update that runs with no other Update in flight it is empty at the first
\* getParents call and every hit follows an Add by that same Update.
C15_CachePerUndisturbedUpdate ==
    \A s \in Scrapes :
        env[s] = "alone" =>
            /\ AtFirstCall(s) => DOMAIN cache = {}
            /\ \A j \in Calls(s) : Hit(s, j) => AddedBefore(s, j)

\* C15 witness: an undisturbed Update hit the entry its own earlier call added.
C15_Witness ==
    \E s \in Scrapes :
        /\ env[s] = "alone"
        /\ Len(log[s]) = 2
        /\ Hit(s, 2)
        /\ AddedBefore(s, 2)
        /\ log[s][2].ret = cache[3]

\* C12 as claimed: once a key is present its stored record does not change
\* until the next Flush, in every execution.
C12_EntriesNeverChange ==
    [][\A k \in DOMAIN cache \cap DOMAIN cache' : cache'[k] = cache[k]]_vars

\* C12 as amended: Add overwrites.  Every Add stores the record of its own
\* walk under its key, also when the key is present; a stored record changes
\* only by such an Add, and only when the inventory changed between the walk
\* that stored it and the walk that replaces it.
C12_AddOverwrites ==
    [][/\ \A s \in Scrapes :
             StepFrom(s, "AddCS") => cache'[me[s]] = res[s]
       /\ \A k \in DOMAIN cache \cap DOMAIN cache' :
             cache'[k] # cache[k] =>
                 /\ renamed
                 /\ \E s \in Scrapes : StepFrom(s, "AddCS") /\ me[s] = k]_vars

\* C12 witness: an Update walked P1 and added its record, no Flush ran since,
\* and the entry now holds the different record of another Update's walk.
C12_Witness ==
    \E s \in Scrapes :
        /\ env[s] # "flushed"
        /\ Len(log[s]) = 1
        /\ log[s][1] = Entry(3, Parents("DC1", "ClusterX", "NONE"), 3, FALSE)
        /\ 3 \in DOMAIN cache
        /\ cache[3] = Parents("DC1", "ClusterY", "NONE")

\* The stage of Update a program point belongs to: 0 not running, 1 Flush,
\* 2 session open, 3 bulk retrieve, 4 the range loop, 5 session close.
Phase(l) ==
    CASE l = "idle" -> 0
      [] l \in {"Flush", "FlushCS"} -> 1
      [] l = "apiConnect" -> 2
      [] l = "apiRetrieve" -> 3
      [] l = "apiDisconnect" -> 5
      [] OTHER -> 4

\* C16: every Update of every collector begins with the one Flush, then opens
\* the session, then retrieves in bulk, then makes its getParents calls and
\* sends its samples, then closes the session; nothing runs out of that
\* order, and Flush is entered only when Update begins.
C16_UpdateOrder ==
    [][\A s \in Scrapes :
          LET a == Phase(pc[s])
              b == Phase(pc'[s])
          IN  /\ (a = 0 /\ b # 0) => pc'[s] = "Flush"
              /\ pc'[s] = "Flush" => pc[s] \in {"idle", "Flush"}
              /\ pc'[s] = "FlushCS" => pc[s] \in {"Flush", "FlushCS"}
              /\ (pc[s] = "FlushCS" /\ pc'[s] # "FlushCS") => pc'[s] = "apiConnect"
              /\ a = 1 => b \in {1, 2}
              /\ a = 2 => b \in {2, 3, 0}
              /\ a = 3 => b \in {3, 4, 5}
              /\ a = 4 => b \in {4, 5}
              /\ a = 5 => b \in {5, 0}
              /\ Len(log'[s]) > Len(log[s]) => (a = 4 /\ b = 4)
              /\ Len(sent'[s]) > Len(sent[s]) => (a = 4 /\ b = 4)
              /\ (pc[s] # pc'[s] /\ pc[s] # "FlushCS") => DOMAIN cache \subseteq DOMAIN cache']_vars

\* C16 witness: a ds Update has flushed, opened its session, retrieved, and
\* resolved and sent two datastores; what is left is the session close.
C16_Witness ==
    \E s \in Scrapes :
        /\ kind[s] = "ds"
        /\ pc[s] = "range"
        /\ Len(log[s]) = 2
        /\ Len(sent[s]) = 2
        /\ DOMAIN cache = {3}

\* C17: when apiConnect or apiRetrieve fails, Update returns that error, the
\* first at once and the second through the session close; it has sent no
\* sample and made no getParents, getVMPool or getVMHostSystem call, and it
\* makes none afterwards.
C17_FailedUpdate ==
    [][\A s \in Scrapes :
          /\ (StepFrom(s, "apiConnect") /\ pc'[s] # "apiRetrieve") =>
                 (err'[s] = "connect" /\ pc'[s] = "idle")
          /\ (StepFrom(s, "apiRetrieve") /\ pc'[s] # "range") =>
                 (err'[s] = "retrieve" /\ pc'[s] = "apiDisconnect")
          /\ (err[s] = "nil" /\ err'[s] # "nil") =>
                 /\ pc[s] \in {"apiConnect", "apiRetrieve"}
                 /\ log[s] = <<>> /\ sent[s] = <<>> /\ vm[s] = VMNone
          /\ err'[s] # "nil" =>
                 /\ pc'[s] \in {"idle", "apiDisconnect"}
                 /\ log'[s] = <<>> /\ sent'[s] = <<>> /\ vm'[s] = VMNone
                 /\ me'[s] = Nil /\ calls'[s] = 0
          /\ (err[s] # "nil" /\ pc'[s] # "Flush") => err'[s] = err[s]]_vars

\* C17 witness: the bulk retrieve of a vm Update failed; the Update is at its
\* session close with that error and nothing sent.
C17_Witness ==
    \E s \in Scrapes :
        /\ kind[s] = "vm"
        /\ pc[s] = "apiDisconnect"
        /\ err[s] = "retrieve"
        /\ sent[s] = <<>>

\* The record call i of this Update has to return: the error record when a
\* fetch failed, else the record of the complete walk from its parent.
Expected(s, i) ==
    IF log[s][i].failed THEN ErrorRec
    ELSE IF log[s][i].parent = Nil THEN NoneRec
    ELSE WalkRecord(log[s][i].parent)

\* Every sample sent so far carries the ancestry its own entity resolved to,
\* and no entity has been skipped.
OwnAncestry(s) ==
    /\ kind[s] \in {"esx", "ds", "spod"} => Len(sent[s]) = Len(log[s])
    /\ Len(sent[s]) <= Len(log[s])
    /\ \A i \in 1..Len(sent[s]) :
          /\ sent[s][i].dc = Expected(s, i).dc
          /\ kind[s] \in {"esx", "vm"} => sent[s][i].cluster = Expected(s, i).cluster
          /\ kind[s] = "ds" => sent[s][i].spod = Expected(s, i).spod
    /\ Phase(pc[s]) = 4 => err[s] = "nil"

\* C18: a failed ancestry walk for one entity does not abort Update: the
\* entity's samples are sent with "ERROR" ancestry label values, the other
\* entities' samples carry their own resolved ancestry, and Update goes on
\* to return no error.
C18_FailedWalkGoesOn ==
    [][\A s \in Scrapes :
          /\ OwnAncestry(s)'
          /\ (StepFrom(s, "RetrieveOne") /\ Len(log'[s]) > Len(log[s])
                 /\ log'[s][Len(log'[s])].failed /\ kind[s] # "vm") =>
                 /\ pc'[s] = "range"
                 /\ Len(sent'[s]) = Len(sent[s]) + 1
                 /\ sent'[s][Len(sent'[s])].dc = "ERROR"
          /\ (Phase(pc[s]) = 4 /\ Phase(pc'[s]) = 5) => err'[s] = "nil"
          /\ (err[s] = "nil" /\ pc[s] = "apiDisconnect") => err'[s] = "nil"]_vars

\* C18 witness: the walk for the first host failed and its samples went out
\* with ERROR labels; the second host's samples carry DC1 and ClusterX.
C18_Witness ==
    \E s \in Scrapes :
        /\ kind[s] = "esx"
        /\ err[s] = "nil"
        /\ Len(log[s]) = 2
        /\ log[s][1].failed
        /\ sent[s][1] = [dc |-> "ERROR", cluster |-> "ERROR", name |-> "Item1"]
        /\ log[s][2].parent = 3 /\ ~log[s][2].failed
        /\ sent[s][2] = [dc |-> "DC1", cluster |-> "ClusterX", name |-> "Item2"]

\* A lookup step for reference ref with result now: no cache access, no
\* remote call and an absent result for a nil reference, else exactly one
\* remote call and the fetched entity or, when the fetch failed, nothing.
Lookup(s, ref, now) ==
    /\ cache' = cache
    /\ mux' = mux
    /\ ref = Nil => (now = Nil /\ vm'[s].fetches = vm[s].fetches)
    /\ ref # Nil => (now \in {ref, Nil} /\ vm'[s].fetches = vm[s].fetches + 1)

\* C19: getVMPool and getVMHostSystem return absent with no remote call for
\* a nil reference; otherwise they make exactly one RetrieveOne and return
\* the fetched entity, or absent when the fetch fails; they never read or
\* modify the ancestry cache.
C19_PoolAndHostLookup ==
    [][\A s \in Scrapes :
          /\ StepFrom(s, "getVMPool") => Lookup(s, vm[s].poolRef, vm'[s].pool)
          /\ StepFrom(s, "getVMHostSystem") => Lookup(s, vm[s].hostRef, vm'[s].host)]_vars

\* C19 witness: a VM with a pool and a host: the pool was fetched, the host
\* fetch failed, two remote calls in all; another VM before it had neither.
C19_Witness ==
    \E s \in Scrapes :
        /\ pc[s] = "range"
        /\ Len(sent[s]) = 2
        /\ vm[s].poolRef = 3 /\ vm[s].pool = 3
        /\ vm[s].hostRef = HostRef /\ vm[s].host = Nil
        /\ vm[s].fetches = 2

\* C20: a VM whose pool (host) lookup is absent or failed gets the pool (esx)
\* label "NONE"; its samples are sent all the same, Update is back at the
\* head of its loop for the remaining VMs, and no error is set.
C20_NoneLabels ==
    [][\A s \in Scrapes :
          StepFrom(s, "getVMHostSystem") =>
              LET last == sent'[s][Len(sent'[s])]
              IN  /\ Len(sent'[s]) = Len(sent[s]) + 1
                  /\ Len(sent'[s]) = Len(log'[s])
                  /\ vm[s].pool = Nil => last.pool = "NONE"
                  /\ vm[s].pool # Nil => last.pool = NodeName(vm[s].pool)
                  /\ vm'[s].host = Nil => last.esx = "NONE"
                  /\ vm'[s].host # Nil => last.esx = "Host1"
                  /\ pc'[s] = "range"
                  /\ err'[s] = "nil"]_vars

\* C20 witness: the first VM had no pool and no host and was sent with both
\* labels "NONE"; the second VM was then processed and sent with its pool and
\* host names, and no error is set.
C20_Witness ==
    \E s \in Scrapes :
        /\ kind[s] = "vm"
        /\ pc[s] = "range"
        /\ err[s] = "nil"
        /\ Len(sent[s]) = 2
        /\ sent[s][1].pool = "NONE" /\ sent[s][1].esx = "NONE"
        /\ sent[s][2].pool = "Pool1" /\ sent[s][2].esx = "Host1"

\* Sample i of this Update carries the datacenter field of its entity's
\* ancestry record and the entity's name.
DcAndName(s, i) ==
    /\ {"dc", "name"} \subseteq DOMAIN sent[s][i]
    /\ sent[s][i].dc = log[s][i].ret.dc
    /\ sent[s][i].name = ItemName(i)

\* C21 as claimed: every sample of every collector carries the ancestry
\* record's datacenter field, its cluster field or its storage-pod field, and
\* the entity's name.
C21_DcClusterOrPodName ==
    \A s \in Scrapes : \A i \in 1..Len(sent[s]) :
        /\ DcAndName(s, i)
        /\ \/ /\ "cluster" \in DOMAIN sent[s][i]
              /\ sent[s][i].cluster = log[s][i].ret.cluster
           \/ /\ "spod" \in DOMAIN sent[s][i]
              /\ sent[s][i].spod = log[s][i].ret.spod

\* C21 as amended: every sample carries the ancestry record's datacenter
\* field and the entity's name; esx and vm samples carry the record's cluster
\* field as well, ds samples its storage-pod field, and spod samples carry
\* neither.
C21_LabelsByCollector ==
    \A s \in Scrapes : \A i \in 1..Len(sent[s]) :
        /\ DcAndName(s, i)
        /\ kind[s] \in {"esx", "vm"} =>
              /\ "cluster" \in DOMAIN sent[s][i]
              /\ "spod" \notin DOMAIN sent[s][i]
              /\ sent[s][i].cluster = log[s][i].ret.cluster
        /\ kind[s] = "ds" =>
              /\ "spod" \in DOMAIN sent[s][i]
              /\ "cluster" \notin DOMAIN sent[s][i]
              /\ sent[s][i].spod = log[s][i].ret.spod
        /\ kind[s] = "spod" => DOMAIN sent[s][i] = {"dc", "name"}

\* C21 witness: a spod Update sent the samples of a storage pod under DC1
\* with the datacenter and the name, and nothing of cluster or storage pod.
C21_Witness ==
    \E s \in Scrapes :
        /\ kind[s] = "spod"
        /\ Len(sent[s]) = 1
        /\ log[s][1].parent = 1 /\ ~log[s][1].failed
        /\ sent[s][1] = [dc |-> "DC1", name |-> "Item1"]

\* The calls of this Update that walked without a failure.
Walks(s) == {i \in Calls(s) : log[s][i].calls > 0 /\ ~log[s][i].failed}

\* C22: a remote call of an Update (session open, bulk retrieve, RetrieveOne
\* of a walk) that completes after the scrape behind the Update was cancelled
\* is aborted: the session open and the bulk retrieve return an error, which
\* ends the Update through its session teardown, and the walk returns as
\* failed.
C22_CancelAborts ==
    [][\A s \in Scrapes :
          /\ (cancelled[s] /\ StepFrom(s, "apiConnect")) => err'[s] = "connect"
          /\ (cancelled[s] /\ StepFrom(s, "apiRetrieve")) =>
                (err'[s] = "retrieve" /\ pc'[s] = "apiDisconnect")
          /\ (cancelled[s] /\ StepFrom(s, "RetrieveOne")) =>
                (Returns(s) /\ Returned(s).failed)]_vars

\* C23: after a failure-free walk from parent reference P the cache holds one
\* more entry, keyed by P, with the returned record; no ancestor on the way
\* and no terminal node gets an entry, so the keys of the cache are exactly
\* the parents walked without failure, and a call whose parent is an ancestor
\* of P but was not walked itself still walks.
C23_KeyedByOriginalParent ==
    \A s \in Scrapes :
        pc[s] = "range" =>
            /\ DOMAIN cache = {log[s][i].parent : i \in Walks(s)}
            /\ \A i \in Walks(s) : cache[log[s][i].parent] = log[s][i].ret
            /\ \A j \in Calls(s) :
                  (log[s][j].parent # Nil
                     /\ \A i \in Walks(s) : i < j => log[s][i].parent # log[s][j].parent)
                  => log[s][j].calls > 0

\* C23 witness: the walk from P1 went through node 2 to node 1 and left the
\* single entry P1; the next object hangs off node 2, missed, and is walking.
C23_Witness ==
    \E s \in Scrapes :
        /\ Len(log[s]) = 1
        /\ log[s][1].parent = 3 /\ log[s][1].calls = 3 /\ ~log[s][1].failed
        /\ DOMAIN cache = {3}
        /\ pc[s] = "RetrieveOne"
        /\ me[s] = 2

\* No node from p up to the top of the chain is a Datacenter.
NoDatacenter(p) == \A n \in 1..p : inv[n] # "Datacenter"

\* C24: a walk that reaches the node without parent, having met no
\* Datacenter and no failed fetch, has fetched every node of the chain,
\* returns dc = "NONE" with cluster and spod as found on the way, and its
\* record is in the cache under the original parent reference.
C24_ChainEndsWithoutDatacenter ==
    \A s \in Scrapes : \A i \in Walks(s) :
        NoDatacenter(log[s][i].parent) =>
            /\ log[s][i].calls = log[s][i].parent
            /\ log[s][i].ret.dc = "NONE"
            /\ log[s][i].ret.cluster = NameOfTag(log[s][i].parent, "ClusterComputeResource")
            /\ log[s][i].ret.spod = NameOfTag(log[s][i].parent, "StoragePod")
            /\ pc[s] = "range" =>
                  /\ log[s][i].parent \in DOMAIN cache
                  /\ cache[log[s][i].parent] = log[s][i].ret

\* C24 witness: a chain of a cluster and two pools without Datacenter: the
\* walk from node 3 fetched all three nodes, returned dc "NONE" with the
\* cluster's name, and the record is cached under node 3.
C24_Witness ==
    \E s \in Scrapes :
        /\ NoDatacenter(3)
        /\ pc[s] = "range"
        /\ Len(log[s]) = 1
        /\ log[s][1].parent = 3 /\ log[s][1].calls = 3 /\ ~log[s][1].failed
        /\ log[s][1].ret.dc = "NONE"
        /\ log[s][1].ret.cluster # "NONE"
        /\ 3 \in DOMAIN cache
        /\ cache[3] = log[s][1].ret

\* C25: no retry.  Every RetrieveOne of a walk either fails, and then
\* getParents returns at once with no further remote call, or succeeds, and
\* then the walk ends or moves to the parent, a node not fetched before: the
\* nodes fetched so far are those from the original parent down to cur, one
\* call each.  getVMPool and getVMHostSystem add at most one fetch each.
C25_NoRetry ==
    [][\A s \in Scrapes :
          /\ StepFrom(s, "RetrieveOne") =>
                \/ /\ Returns(s)
                   /\ Returned(s).failed
                   /\ Returned(s).calls = calls[s] + 1
                   /\ pc'[s] \in {"range", "getVMHostSystem"}
                \/ /\ ~Returns(s)
                   /\ calls'[s] = calls[s] + 1
                   /\ \/ pc'[s] = "Add" /\ cur'[s] = cur[s]
                      \/ /\ pc'[s] = "RetrieveOne"
                         /\ cur'[s] = NodeParent(cur[s])
                         /\ cur'[s] # Nil
                         /\ cur'[s] < cur[s]
          /\ pc'[s] = "RetrieveOne" => calls'[s] = me'[s] - cur'[s]
          /\ \A i \in 1..Len(log'[s]) : log'[s][i].calls <= log'[s][i].parent
          /\ vm'[s].fetches <= vm[s].fetches + 1
          /\ vm'[s].fetches <= 2]_vars

\* C25 witness: in a vm Update the walk from P1's parent failed at its second
\* fetch and returned after two calls; the pool lookup before it had made
\* its one fetch.
C25_Witness ==
    \E s \in Scrapes :
        /\ kind[s] = "vm"
        /\ pc[s] = "getVMHostSystem"
        /\ vm[s].pool = 3
        /\ vm[s].fetches = 1
        /\ Len(log[s]) = 1
        /\ log[s][1].parent = 2
        /\ log[s][1].failed
        /\ log[s][1].calls = 2

\* C26: a successful fetch of a node whose type tag is none of StoragePod,
\* ClusterComputeResource and Datacenter leaves the three fields as they
\* were and moves the walk to the node's parent; a field changes only at a
\* node of its own type tag.
C26_TransparentTypes ==
    [][\A s \in Scrapes :
          (StepFrom(s, "RetrieveOne") /\ ~Returns(s)) =>
              LET tag == inv[cur[s]]
              IN  /\ tag \notin {"StoragePod", "ClusterComputeResource", "Datacenter"} =>
                        /\ res'[s] = res[s]
                        /\ NodeParent(cur[s]) # Nil =>
                              (pc'[s] = "RetrieveOne" /\ cur'[s] = NodeParent(cur[s]))
                  /\ tag # "Datacenter" => res'[s].dc = res[s].dc
                  /\ tag # "ClusterComputeResource" => res'[s].cluster = res[s].cluster
                  /\ tag # "StoragePod" => res'[s].spod = res[s].spod]_vars

\* C26 witness: the walk has fetched a cluster (node 3) and the ResourcePool
\* above it, kept the cluster's name and nothing else, and is at the pool's
\* parent.
C26_Witness ==
    \E s \in Scrapes :
        /\ pc[s] = "RetrieveOne"
        /\ me[s] = 3 /\ cur[s] = 1
        /\ inv[3] = "ClusterComputeResource"
        /\ inv[2] = "ResourcePool"
        /\ calls[s] = 2
        /\ res[s] = Parents("NONE", "Pool1", "NONE")

\* C27: an Update whose session open succeeded holds that session open until
\* its apiDisconnect, which runs once, as the step by which Update returns,
\* after the last sample was sent, on the success path and after a failed
\* bulk retrieve alike, and closes the session the Update opened; an Update
\* whose session open failed returns at once, without apiDisconnect and
\* without a session.
C27_ClosesOnce ==
    [][\A s \in Scrapes :
          /\ StepFrom(s, "apiConnect") =>
                \/ pc'[s] = "apiRetrieve" /\ sess'[s] = "open" /\ client'[kind[s]] = s
                \/ pc'[s] = "idle" /\ err'[s] = "connect" /\ sess'[s] = "none"
          /\ (sess[s] = "open" /\ sess'[s] # "open") =>
                (pc[s] = "apiDisconnect" /\ client[kind[s]] = s /\ pc'[s] = "idle")
          /\ (pc'[s] = "apiDisconnect" /\ pc[s] # "apiDisconnect") =>
                (sess[s] = "open" /\ pc[s] \in {"apiRetrieve", "range"})
          /\ StepFrom(s, "apiDisconnect") => (sess[s] = "open" /\ pc'[s] = "idle")
          /\ (pc'[s] = "idle" /\ pc[s] # "idle") =>
                (sess'[s] = "none" /\ pc[s] \in {"apiConnect", "apiDisconnect"})
          /\ (StepFrom(s, "apiRetrieve") /\ err'[s] = "retrieve") =>
                (pc'[s] = "apiDisconnect" /\ sess'[s] = "open")
          /\ Len(sent'[s]) > Len(sent[s]) =>
                (sess'[s] = "open" /\ pc'[s] # "apiDisconnect")]_vars

\* C27 witness: an Update opened its session, its bulk retrieve failed, and
\* it has returned the error with the session closed.
C27_Witness ==
    \E s \in Scrapes :
        /\ pc[s] = "idle"
        /\ err[s] = "retrieve"
        /\ sess[s] = "none"

\* C28: when Updates of one collector overlap, each uses the session it
\* opened for its bulk retrieve, for the walks it starts and for its session
\* close; no Update's session is logged out by another Update, and no Update
\* returns with the session it opened still open.
C28_OwnSession ==
    \A s \in Scrapes :
        /\ pc[s] \in {"apiRetrieve", "range", "apiDisconnect"} => client[kind[s]] = s
        /\ sess[s] # "closed"
        /\ pc[s] = "idle" => sess[s] # "open"

\* C29: every Update flushes before its session open, whatever happens next:
\* the Flush leaves the cache empty, entries of running Updates included, and
\* neither a failing session open, a failing bulk retrieve nor the return
\* that follows puts anything back.
C29_FlushOfFailedUpdate ==
    [][\A s \in Scrapes :
          /\ StepFrom(s, "FlushCS") => DOMAIN cache' = {}
          /\ (pc'[s] = "apiConnect" /\ pc[s] # "apiConnect") => pc[s] = "FlushCS"
          /\ (pc[s] \in {"apiConnect", "apiRetrieve", "apiDisconnect"} /\ pc'[s] # pc[s]) =>
                cache' = cache
          /\ (err[s] = "nil" /\ err'[s] # "nil") => cache' = cache]_vars

\* C29 witness: an Update walked P1 and added its record; another Update
\* flushed, failed at its session open and returned with nothing sent; the
\* cache is empty.
C29_Witness ==
    \E s, u \in Scrapes :
        /\ s # u
        /\ pc[s] = "idle"
        /\ err[s] = "connect"
        /\ env[u] = "flushed"
        /\ pc[u] = "range"
        /\ Len(log[u]) = 1
        /\ log[u][1].parent = 3 /\ log[u][1].calls = 3 /\ ~log[u][1].failed
        /\ DOMAIN cache = {}

\* C30: no cache entry holds the failure record, so the failure record is
\* returned only by the call whose own fetch failed, never by a cache hit.
C30_NoErrorRecordCached ==
    /\ \A k \in DOMAIN cache : cache[k] # ErrorRec
    /\ \A s \in Scrapes : \A i \in Calls(s) :
          /\ Hit(s, i) => log[s][i].ret # ErrorRec
          /\ log[s][i].ret = ErrorRec => (log[s][i].failed /\ log[s][i].calls > 0)

\* C30 witness: a walk from P1 failed and returned the failure record; the
\* next call for P1 hit the entry another Update had added meanwhile and
\* returned the resolved record.
C30_Witness ==
    \E s \in Scrapes :
        /\ Len(log[s]) = 2
        /\ log[s][1].parent = 3 /\ log[s][1].failed
        /\ log[s][1].ret = ErrorRec
        /\ Hit(s, 2)
        /\ log[s][2].parent = 3
        /\ log[s][2].ret = Parents("DC1", "ClusterX", "NONE")
        /\ cache[3] = log[s][2].ret

\* The vm Update of goroutine s is inside getParents for its current VM, or
\* has just returned from it.
InVMWalk(s) ==
    kind[s] = "vm" /\ pc[s] \in {"Get", "GetCS", "RetrieveOne", "Add", "AddCS"}

AfterVMWalk(s) == kind[s] = "vm" /\ pc[s] = "getVMHostSystem"

\* The earlier VMs of this Update that were sent with the pool of the current
\* VM.
SamePool(s) ==
    {i \in 1..Len(sent[s]) :
        vm[s].pool # Nil /\ sent[s][i].pool = NodeName(vm[s].pool)}

\* C31: the vm collector resolves a VM's ancestry from the parent of its
\* resource pool when getVMPool returned the pool, and from the VM's own
\* parent when the VM has no pool or the pool lookup failed: that reference
\* is where the walk starts and what the call is logged and cached under.
\* A VM in the pool of an earlier VM of the Update is resolved under the same
\* reference, by a hit on the earlier VM's entry unless that walk failed.
C31_VMAncestryFromPool ==
    \A s \in Scrapes :
        /\ kind[s] = "vm" => vm[s].pool \in {Nil, vm[s].poolRef}
        /\ InVMWalk(s) =>
              /\ vm[s].pool # Nil => me[s] = NodeParent(vm[s].pool)
              /\ vm[s].pool = Nil => me[s] = vm[s].parent
        /\ AfterVMWalk(s) =>
              LET j == Len(log[s])
              IN  /\ vm[s].pool # Nil => log[s][j].parent = NodeParent(vm[s].pool)
                  /\ vm[s].pool = Nil => log[s][j].parent = vm[s].parent
                  /\ \A i \in SamePool(s) :
                        /\ log[s][i].parent = log[s][j].parent
                        /\ ~log[s][i].failed =>
                              /\ Hit(s, j)
                              /\ log[s][j].ret = log[s][i].ret
                              /\ cache[log[s][j].parent] = log[s][j].ret

\* C31 witness: two VMs with different parents of their own, both in pool
\* P1; the first was resolved by a walk from P1's parent, the second by a hit
\* on the entry under P1's parent.
C31_Witness ==
    \E s \in Scrapes :
        /\ AfterVMWalk(s)
        /\ Len(log[s]) = 2
        /\ vm[s].pool = 3 /\ vm[s].parent = 1
        /\ sent[s][1].pool = "Pool1"
        /\ log[s][1].parent = 2 /\ log[s][1].calls = 2 /\ ~log[s][1].failed
        /\ Hit(s, 2)
        /\ log[s][2].parent = 2
        /\ DOMAIN cache = {2}

\* C31 second witness: the pool lookup of a VM in pool P1 failed, and its
\* ancestry was resolved by a walk from the VM's own parent.
C31_WitnessFailedLookup ==
    \E s \in Scrapes :
        /\ AfterVMWalk(s)
        /\ vm[s].poolRef = 3 /\ vm[s].pool = Nil /\ vm[s].fetches = 1
        /\ vm[s].parent = 3
        /\ log[s][Len(log[s])].parent = 3
        /\ log[s][Len(log[s])].calls = 3

\* Goroutine s is inside a getParents call past its nil test.
InGetParents(s) == pc[s] \in {"Get", "GetCS", "RetrieveOne", "Add", "AddCS"}

\* C32: on the finite, acyclic chains of every inventory, with every fetch
\* returning, a getParents call that has started returns, and it never
\* issues more RetrieveOne calls than there are nodes from its parent
\* reference up to and including the first Datacenter.
C32_GetParentsTerminates ==
    /\ [](\A s \in Scrapes :
            /\ InGetParents(s) => calls[s] <= Cardinality(Visited(me[s]))
            /\ \A i \in Calls(s) :
                  log[s][i].parent # Nil =>
                      log[s][i].calls <= Cardinality(Visited(log[s][i].parent)))
    /\ \A s \in Scrapes : InGetParents(s) ~> ~InGetParents(s)

\* C32 witness: a walk from the bottom of a chain without Datacenter has
\* fetched every node of the chain and returned.
C32_Witness ==
    \E s \in Scrapes :
        /\ NoDatacenter(MaxNodes)
        /\ Len(log[s]) = 1
        /\ log[s][1].parent = MaxNodes
        /\ log[s][1].calls = MaxNodes
        /\ ~log[s][1].failed
        /\ pc[s] = "range"

\* Goroutine s is inside Flush, Get or Add: at its Lock or between Lock and
\* Unlock.  No two cache operations of a goroutine follow each other without
\* a step outside them.
InCacheOp(s) == pc[s] \in {"Flush", "FlushCS", "Get", "GetCS", "Add", "AddCS"}

\* C33: the mutex is held only by a goroutine between the Lock and the
\* Unlock of a cache operation, so whenever goroutines wait for it, it is
\* free or its holder is about to release it; and under fair scheduling
\* every Flush, Get and Add that a goroutine has entered completes, with any
\* number of Updates running.
C33_CacheOperationsComplete ==
    /\ [](\A s \in Scrapes : mux = s => InCS(s))
    /\ \A s \in Scrapes : InCacheOp(s) ~> ~InCacheOp(s)

\* C33 witness: one goroutine has completed Flush, Get and Add and returned
\* from getParents, while another waits at the Lock of its Get with the
\* mutex free.
C33_Witness ==
    \E s, u \in Scrapes :
        /\ s # u
        /\ pc[s] = "range"
        /\ Len(log[s]) = 1 /\ log[s][1].calls = 3 /\ ~log[s][1].failed
        /\ pc[u] = "Get"
        /\ mux = 0

====
